---- MODULE Spec2Model ----
(***************************************************************************)
(* Greedy "closest remaining calories" diet planner (TubesAKA.py).         *)
(*                                                                         *)
(* The script loads a catalog from a CSV source, runs the iterative and    *)
(* the recursive greedy selector `trials` times each inside the timing     *)
(* harness, and summarises both results.  The model follows the script     *)
(* statement by statement; the selectors are modelled one loop iteration   *)
(* (one recursive call) per step.  Wall-clock samples are not modelled:    *)
(* the harness is represented by its loop counter and its `result`.        *)
(***************************************************************************)
EXTENDS Integers, Sequences, FiniteSets, TLC

VARIABLES source, target, trials, pc, err, MENU_DATABASE,
          trial, sisa, hasil, result, hasil_iter, hasil_rec,
          sum_iter, sum_rec

vars == << source, target, trials, pc, err, MENU_DATABASE,
           trial, sisa, hasil, result, hasil_iter, hasil_rec,
           sum_iter, sum_rec >>

-----------------------------------------------------------------------------
(* Bounds of the model *)

MaxRows == 3
MaxCal == 2
MaxNeg == 1
MaxTarget == 4
MaxTrials == 2
MaxPicks == 6

Names == {"a", "b"}
CalValues == (0 - MaxNeg)..MaxCal

-----------------------------------------------------------------------------
(* Data *)

\* dataclass Makanan
Makanan(n, k) == [nama |-> n, kalori |-> k]

\* One CSV row as pandas hands it to the loader: the name cell and the
\* calorie cell, which is a number, a missing value or non-numeric text.
CsvRows ==
    { r \in [nama : Names, kind : {"num", "nan", "text"}, val : CalValues] :
        r.kind # "num" => r.val = 0 }

RequiredCols == {"Nama_Makanan", "Kalori_kcal"}

ColumnSets == { RequiredCols, {"Nama_Makanan"}, {"Kalori_kcal"} }

SeqsUpTo(S, n) == UNION { [1..k -> S] : k \in 0..n }

Sources == [cols : ColumnSets, rows : SeqsUpTo(CsvRows, MaxRows)]

\* abs()
Abs(x) == IF x < 0 THEN 0 - x ELSE x

\* sum(m.kalori for m in items)
RECURSIVE SumKalori(_)
SumKalori(items) ==
    IF items = << >> THEN 0
    ELSE items[1].kalori + SumKalori(Tail(items))

-----------------------------------------------------------------------------
(* Catalog loader *)

CoercibleLenient(cell) == TRUE

\* int(row["Kalori_kcal"]) succeeds only on a numeric cell
Coercible(cell) == cell.kind = "num"

\* required_cols.issubset(df.columns)
HasRequiredCols(src) == RequiredCols \subseteq src.cols

LoadRowsDropInvalid(src) ==
    LET kept == SelectSeq(src.rows, Coercible) IN
    [ok |-> TRUE,
     menu |-> [i \in 1..Len(kept) |-> Makanan(kept[i].nama, kept[i].val)]]

\* The list comprehension of load_menu_from_csv: one Makanan per row, in
\* row order; the first cell int() rejects raises and no list is returned.
LoadRows(src) ==
    IF \A i \in 1..Len(src.rows) : Coercible(src.rows[i])
    THEN [ok |-> TRUE,
          menu |-> [i \in 1..Len(src.rows) |->
                      Makanan(src.rows[i].nama, src.rows[i].val)]]
    ELSE [ok |-> FALSE, menu |-> << >>]

-----------------------------------------------------------------------------
(* Closest-match scan, shared shape of both selectors *)

\* selisih_min = float("inf"): no distance seen yet
Inf == 0 - 1

\* idx_pilih = -1: no item chosen; catalog indices are 0-based as in the code
NoIdx == 0 - 1

\* menu[i] with the code's 0-based index
At(menu, i) == menu[i + 1]

(* greedy_menu: lines 65-72 *)

\* selisih = abs(m.kalori - sisa)
IterSelisih(m, s) == Abs(m.kalori - s)

IterImprovesLE(selisih, selisih_min) ==
    selisih_min = Inf \/ selisih <= selisih_min

\* if selisih < selisih_min
IterImproves(selisih, selisih_min) ==
    selisih_min = Inf \/ selisih < selisih_min

\* for i, m in enumerate(menu): ... , from position i on
RECURSIVE IterScan(_, _, _, _, _)
IterScan(menu, s, i, idx_pilih, selisih_min) ==
    IF i >= Len(menu) THEN idx_pilih
    ELSE IF IterImproves(IterSelisih(At(menu, i), s), selisih_min)
         THEN IterScan(menu, s, i + 1, i, IterSelisih(At(menu, i), s))
         ELSE IterScan(menu, s, i + 1, idx_pilih, selisih_min)

IterSubtractFromTarget(s, k) == target - k

\* sisa -= menu[idx_pilih].kalori
IterSubtract(s, k) == s - k

IterStopAtOne(s) == s <= 1

\* if sisa <= 0: break
IterStop(s) == s <= 0

\* while sisa > 0
IterGuard(s) == s > 0

\* greedy_menu(target, menu) as a function of its arguments: the loop run
\* from (s, h) = (target, []), cut off after `fuel` selections
RECURSIVE IterRun(_, _, _, _)
IterRun(s, menu, h, fuel) ==
    IF fuel = 0 \/ ~IterGuard(s) THEN h
    ELSE LET idx_pilih == IterScan(menu, s, 0, NoIdx, Inf) IN
         IF idx_pilih = NoIdx THEN h
         ELSE IF IterStop(IterSubtract(s, At(menu, idx_pilih).kalori))
              THEN Append(h, At(menu, idx_pilih))
              ELSE IterRun(IterSubtract(s, At(menu, idx_pilih).kalori), menu,
                           Append(h, At(menu, idx_pilih)), fuel - 1)

(* greedy_menu_rekursif: lines 89-105 *)

RecBaseCaseStrict(s) == s < 0

RecBaseCaseAtOne(s) == s <= 1

\* if sisa <= 0: return
RecBaseCase(s) == s <= 0

\* selisih = abs(m.kalori - sisa)
RecSelisih(m, s) == Abs(m.kalori - s)

RecImprovesLE(selisih, selisih_min) ==
    selisih_min = Inf \/ selisih <= selisih_min

\* if selisih < selisih_min
RecImproves(selisih, selisih_min) ==
    selisih_min = Inf \/ selisih < selisih_min

\* for i, m in enumerate(menu): ... , from position i on
RECURSIVE RecScan(_, _, _, _, _)
RecScan(menu, s, i, idx_pilih, selisih_min) ==
    IF i >= Len(menu) THEN idx_pilih
    ELSE IF RecImproves(RecSelisih(At(menu, i), s), selisih_min)
         THEN RecScan(menu, s, i + 1, i, RecSelisih(At(menu, i), s))
         ELSE RecScan(menu, s, i + 1, idx_pilih, selisih_min)

\* the argument of the recursive call: sisa - menu[idx_pilih].kalori
RecSubtract(s, k) == s - k


\* greedy_menu_rekursif(s, menu, h) as a function of its arguments: the list
\* `h` after the call, cut off after `fuel` selections
RECURSIVE RecRun(_, _, _, _)
RecRun(s, menu, h, fuel) ==
    IF fuel = 0 \/ RecBaseCase(s) THEN h
    ELSE LET idx_pilih == RecScan(menu, s, 0, NoIdx, Inf) IN
         IF idx_pilih = NoIdx THEN h
         ELSE RecRun(RecSubtract(s, At(menu, idx_pilih).kalori), menu,
                     Append(h, At(menu, idx_pilih)), fuel - 1)

-----------------------------------------------------------------------------
(* Timing harness and summary *)

RecTrialKeep(prev) == prev

\* result = [] at the start of every trial of measure_time_rekursif
RecTrialInit(prev) == << >>

\* diff = total - target
SummaryDiff(t, total) == total - t

SummaryStatusSwapped(diff) ==
    IF diff = 0 THEN << "Tepat" >>
    ELSE IF diff > 0 THEN << "Kurang", "", diff >>
    ELSE << "Terlampaui", "+", diff >>

\* "Tepat" | f"Terlampaui (+{diff})" | f"Kurang ({diff})": the label, the
\* literal sign the format string adds, and the number it interpolates
SummaryStatus(diff) ==
    IF diff = 0 THEN << "Tepat" >>
    ELSE IF diff > 0 THEN << "Terlampaui", "+", diff >>
    ELSE << "Kurang", "", diff >>

summarize(t, items) ==
    [total |-> SumKalori(items),
     diff |-> SummaryDiff(t, SumKalori(items)),
     status |-> SummaryStatus(SummaryDiff(t, SumKalori(items)))]

-----------------------------------------------------------------------------
NoSummary == [total |-> 0, diff |-> 0, status |-> << "-" >>]

Init ==
    /\ source \in Sources
    /\ target \in 1..MaxTarget
    /\ trials \in 1..MaxTrials
    /\ pc = "load"
    /\ err = "none"
    /\ MENU_DATABASE = << >>
    /\ trial = 0
    /\ sisa = 0
    /\ hasil = << >>
    /\ result = << >>
    /\ hasil_iter = << >>
    /\ hasil_rec = << >>
    /\ sum_iter = NoSummary
    /\ sum_rec = NoSummary

\* try: MENU_DATABASE = load_menu_from_csv(csv_file)
\* except: st.error(...); st.stop()
Load ==
    /\ pc = "load"
    /\ IF ~HasRequiredCols(source)
       THEN /\ pc' = "error"
            /\ err' = "schema"
            /\ UNCHANGED MENU_DATABASE
       ELSE IF ~LoadRows(source).ok
       THEN /\ pc' = "error"
            /\ err' = "coerce"
            /\ UNCHANGED MENU_DATABASE
       ELSE /\ pc' = "mi_for"
            /\ MENU_DATABASE' = LoadRows(source).menu
            /\ UNCHANGED err
    /\ UNCHANGED << source, target, trials, trial, sisa, hasil, result,
                    hasil_iter, hasil_rec, sum_iter, sum_rec >>

(* measure_time_iteratif *)

\* for _ in range(trials): result = greedy_menu(target, menu) -- the call:
\* sisa = target; hasil = []
MeasureIterTrial ==
    /\ pc = "mi_for"
    /\ trial < trials
    /\ sisa' = target
    /\ hasil' = << >>
    /\ pc' = "gi_while"
    /\ UNCHANGED << source, target, trials, err, MENU_DATABASE, trial,
                    result, hasil_iter, hasil_rec, sum_iter, sum_rec >>

\* One evaluation of the while test and, when it holds, one loop body.
GreedyIterStep ==
    /\ pc = "gi_while"
    /\ IF ~IterGuard(sisa)
       THEN /\ pc' = "gi_ret"
            /\ UNCHANGED << sisa, hasil >>
       ELSE LET idx_pilih == IterScan(MENU_DATABASE, sisa, 0, NoIdx, Inf) IN
            IF idx_pilih = NoIdx
            THEN /\ pc' = "gi_ret"
                 /\ UNCHANGED << sisa, hasil >>
            ELSE /\ Len(hasil) < MaxPicks
                 /\ hasil' = Append(hasil, At(MENU_DATABASE, idx_pilih))
                 /\ sisa' = IterSubtract(sisa, At(MENU_DATABASE, idx_pilih).kalori)
                 /\ pc' = IF IterStop(sisa') THEN "gi_ret" ELSE "gi_while"
    /\ UNCHANGED << source, target, trials, err, MENU_DATABASE, trial,
                    result, hasil_iter, hasil_rec, sum_iter, sum_rec >>

\* return hasil; result = <returned list>; next trial
GreedyIterReturn ==
    /\ pc = "gi_ret"
    /\ result' = hasil
    /\ trial' = trial + 1
    /\ pc' = "mi_for"
    /\ UNCHANGED << source, target, trials, err, MENU_DATABASE, sisa, hasil,
                    hasil_iter, hasil_rec, sum_iter, sum_rec >>

\* return result, ...  -> hasil_iter; then measure_time_rekursif starts:
\* result = []
MeasureIterReturn ==
    /\ pc = "mi_for"
    /\ trial = trials
    /\ hasil_iter' = result
    /\ result' = << >>
    /\ trial' = 0
    /\ pc' = "mr_for"
    /\ UNCHANGED << source, target, trials, err, MENU_DATABASE, sisa, hasil,
                    hasil_rec, sum_iter, sum_rec >>

(* measure_time_rekursif *)

\* for _ in range(trials): result = []; greedy_menu_rekursif(target, menu,
\* result) -- the outermost call, whose `hasil` is the list `result`
MeasureRecTrial ==
    /\ pc = "mr_for"
    /\ trial < trials
    /\ result' = RecTrialInit(result)
    /\ sisa' = target
    /\ pc' = "gr_call"
    /\ UNCHANGED << source, target, trials, err, MENU_DATABASE, trial, hasil,
                    hasil_iter, hasil_rec, sum_iter, sum_rec >>

\* One call of greedy_menu_rekursif with argument sisa; it appends to the
\* caller's list and calls itself.  The pending frames do nothing after the
\* inner call returns, so the return of the innermost call ends the trial.
GreedyRecCall ==
    /\ pc = "gr_call"
    /\ IF RecBaseCase(sisa)
       THEN /\ pc' = "gr_ret"
            /\ UNCHANGED << sisa, result >>
       ELSE LET idx_pilih == RecScan(MENU_DATABASE, sisa, 0, NoIdx, Inf) IN
            IF idx_pilih = NoIdx
            THEN /\ pc' = "gr_ret"
                 /\ UNCHANGED << sisa, result >>
            ELSE /\ Len(result) < MaxPicks
                 /\ result' = Append(result, At(MENU_DATABASE, idx_pilih))
                 /\ sisa' = RecSubtract(sisa, At(MENU_DATABASE, idx_pilih).kalori)
                 /\ pc' = "gr_call"
    /\ UNCHANGED << source, target, trials, err, MENU_DATABASE, trial, hasil,
                    hasil_iter, hasil_rec, sum_iter, sum_rec >>

\* the outermost call has returned; next trial
GreedyRecReturn ==
    /\ pc = "gr_ret"
    /\ trial' = trial + 1
    /\ pc' = "mr_for"
    /\ UNCHANGED << source, target, trials, err, MENU_DATABASE, sisa, hasil,
                    result, hasil_iter, hasil_rec, sum_iter, sum_rec >>

\* return result, ...  -> hasil_rec
MeasureRecReturn ==
    /\ pc = "mr_for"
    /\ trial = trials
    /\ hasil_rec' = result
    /\ pc' = "summarize"
    /\ UNCHANGED << source, target, trials, err, MENU_DATABASE, trial, sisa,
                    hasil, result, hasil_iter, sum_iter, sum_rec >>

\* total_iter, diff_iter, status_iter = summarize(target, hasil_iter)
\* total_rec, diff_rec, status_rec = summarize(target, hasil_rec)
Summarize ==
    /\ pc = "summarize"
    /\ sum_iter' = summarize(target, hasil_iter)
    /\ sum_rec' = summarize(target, hasil_rec)
    /\ pc' = "done"
    /\ UNCHANGED << source, target, trials, err, MENU_DATABASE, trial, sisa,
                    hasil, result, hasil_iter, hasil_rec >>

Next ==
    \/ Load
    \/ MeasureIterTrial
    \/ GreedyIterStep
    \/ GreedyIterReturn
    \/ MeasureIterReturn
    \/ MeasureRecTrial
    \/ GreedyRecCall
    \/ GreedyRecReturn
    \/ MeasureRecReturn
    \/ Summarize

Spec == Init /\ [][Next]_vars

\* The script is one sequential thread: it always takes its next step.
FairSpec == Spec /\ WF_vars(Next)
-----------------------------------------------------------------------------
(* summarize as a function of arbitrary arguments: any target, any list for
   the first summary and any list of at most one item for the second *)

MinTarget == 1

Items == { Makanan(n, k) : n \in Names, k \in CalValues }

SumInit ==
    /\ source = [cols |-> RequiredCols, rows |-> << >>]
    /\ target \in (0 - MinTarget)..MaxTarget
    /\ trials = 1
    /\ pc = "summarize"
    /\ err = "none"
    /\ MENU_DATABASE = << >>
    /\ trial = 1
    /\ sisa = 0
    /\ hasil = << >>
    /\ result = << >>
    /\ hasil_iter \in SeqsUpTo(Items, MaxRows)
    /\ hasil_rec \in SeqsUpTo(Items, 1)
    /\ sum_iter = NoSummary
    /\ sum_rec = NoSummary

SumNext == Summarize

SumSpec == SumInit /\ [][SumNext]_vars

-----------------------------------------------------------------------------
(* Vocabulary of the properties *)

Running == pc \notin {"load", "error"}

InIter == pc = "gi_while"

InRec == pc = "gr_call"

Dist(menu, i, r) == Abs(At(menu, i).kalori - r)

\* the smallest 0-based index whose calorie value is closest to r
ClosestIdx(menu, r) ==
    CHOOSE i \in 0..(Len(menu) - 1) :
        /\ \A j \in 0..(Len(menu) - 1) : Dist(menu, i, r) <= Dist(menu, j, r)
        /\ \A j \in 0..(i - 1) : Dist(menu, i, r) < Dist(menu, j, r)

Closest(menu, r) == At(menu, ClosestIdx(menu, r))

PositiveCatalog(menu) ==
    /\ menu # << >>
    /\ \A i \in 1..Len(menu) : menu[i].kalori > 0

MinKalori(menu) ==
    CHOOSE k \in { menu[i].kalori : i \in 1..Len(menu) } :
        \A i \in 1..Len(menu) : k <= menu[i].kalori

CeilDiv(a, b) == (a + b - 1) \div b

ProperPrefixesBelow(list, t) ==
    \A k \in 0..(Len(list) - 1) : SumKalori(SubSeq(list, 1, k)) < t

SomeUncoercible(src) ==
    \E i \in 1..Len(src.rows) : src.rows[i].kind # "num"

AllUncoercible(src) ==
    \A i \in 1..Len(src.rows) : src.rows[i].kind # "num"

\* menu holds exactly the rows at the positions in keep, in source order
RowsInOrder(menu, src, keep) ==
    /\ Len(menu) = Cardinality(keep)
    /\ \A i \in keep :
         LET pos == Cardinality({ j \in keep : j <= i }) IN
         /\ menu[pos].nama = src.rows[i].nama
         /\ menu[pos].kalori = src.rows[i].val

NumericRows(src) == { i \in 1..Len(src.rows) : src.rows[i].kind = "num" }

-----------------------------------------------------------------------------
(* Properties *)

\* C1: for every target > 0 and catalog, the iterative and the recursive
\* selector return the same items in the same order (hence the same length
\* and the same total).
C1_SelectorsAgree ==
    pc \in {"summarize", "done"} =>
        /\ hasil_iter = hasil_rec
        /\ Len(hasil_iter) = Len(hasil_rec)
        /\ SumKalori(hasil_iter) = SumKalori(hasil_rec)

C1_Witness ==
    /\ pc = "done"
    /\ Len(MENU_DATABASE) >= 2
    /\ MENU_DATABASE[1].kalori = MENU_DATABASE[2].kalori
    /\ MENU_DATABASE[1].nama # MENU_DATABASE[2].nama
    /\ Len(hasil_iter) >= 2
    /\ hasil_iter = hasil_rec

\* C2: every selection step of either selector, taken with remaining budget
\* r > 0 on a non-empty catalog, appends the item at the smallest index that
\* minimises |calories - r|; among ties the earliest item is picked.
C2_ClosestEarliest ==
    [][ /\ (InIter /\ sisa > 0 /\ MENU_DATABASE # << >>)
            => hasil' = Append(hasil, Closest(MENU_DATABASE, sisa))
        /\ (InRec /\ sisa > 0 /\ MENU_DATABASE # << >>)
            => result' = Append(result, Closest(MENU_DATABASE, sisa)) ]_vars

C2_Witness ==
    /\ pc = "gr_call"
    /\ Len(MENU_DATABASE) >= 2
    /\ MENU_DATABASE[1].kalori = MENU_DATABASE[2].kalori
    /\ MENU_DATABASE[1].kalori = target
    /\ MENU_DATABASE[1].nama # MENU_DATABASE[2].nama
    /\ result = << MENU_DATABASE[1] >>

\* C3: on a non-empty catalog of positive calories and a target T > 0 each
\* selector terminates, and no result ever holds more than T / min(calories)
\* items, rounded up.
C3_TerminationBound ==
    /\ [](Running /\ PositiveCatalog(MENU_DATABASE) =>
            \A list \in {hasil, result, hasil_iter, hasil_rec} :
                Len(list) <= CeilDiv(target, MinKalori(MENU_DATABASE)))
    /\ (Running /\ PositiveCatalog(MENU_DATABASE)) ~> (pc = "done")

C3_Witness ==
    /\ pc = "done"
    /\ PositiveCatalog(MENU_DATABASE)
    /\ target >= 2
    /\ Len(hasil_iter) = CeilDiv(target, MinKalori(MENU_DATABASE))
    /\ Len(hasil_rec) = CeilDiv(target, MinKalori(MENU_DATABASE))

\* C4: a selection is made only while remaining > 0: in every list a
\* selector builds, every proper prefix sums to strictly less than the
\* target, so only the last item can reach or pass the target.
C4_NoPickPastTarget ==
    /\ \A list \in {hasil, result, hasil_iter, hasil_rec} :
          ProperPrefixesBelow(list, target)
    /\ InIter => sisa = target - SumKalori(hasil)
    /\ InRec => sisa = target - SumKalori(result)

C4_Witness ==
    /\ pc = "done"
    /\ Len(hasil_iter) >= 2
    /\ Len(hasil_rec) >= 2
    /\ SumKalori(hasil_iter) > target
    /\ SumKalori(hasil_rec) > target

\* C5: for every trials >= 1 the list each harness returns is the list of
\* its final trial and equals the list of a single fresh run of its
\* selector: every trial starts from an empty list and all trials agree.
C5_TrialsFresh ==
    LET fresh_iter == IterRun(target, MENU_DATABASE, << >>, MaxPicks)
        fresh_rec == RecRun(target, MENU_DATABASE, << >>, MaxPicks)
    IN  /\ pc = "gi_ret" => hasil = fresh_iter
        /\ (pc = "mi_for" /\ trial >= 1) => result = fresh_iter
        /\ pc \in {"mr_for", "gr_call", "gr_ret", "summarize", "done"}
              => hasil_iter = fresh_iter
        /\ pc = "gr_ret" => result = fresh_rec
        /\ (pc = "mr_for" /\ trial >= 1) => result = fresh_rec
        /\ pc \in {"summarize", "done"} => hasil_rec = fresh_rec

C5_Witness ==
    /\ pc = "done"
    /\ trials >= 2
    /\ Len(hasil_iter) >= 2
    /\ Len(hasil_rec) >= 2

\* C6: summarize returns total = sum of calories, diff = total - target, and
\* the status "Tepat" exactly when diff = 0, "Terlampaui" exactly when
\* diff > 0, "Kurang" exactly when diff < 0, showing the signed diff.
SummaryOf(sum, items) ==
    /\ sum.total = SumKalori(items)
    /\ sum.diff = sum.total - target
    /\ sum.status[1] \in {"Tepat", "Terlampaui", "Kurang"}
    /\ sum.status[1] = "Tepat" <=> sum.diff = 0
    /\ sum.status[1] = "Terlampaui" <=> sum.diff > 0
    /\ sum.status[1] = "Kurang" <=> sum.diff < 0
    /\ sum.diff # 0 => sum.status[3] = sum.total - target

C6_SummaryLabels ==
    pc = "done" =>
        /\ SummaryOf(sum_iter, hasil_iter)
        /\ SummaryOf(sum_rec, hasil_rec)

C6_Witness ==
    /\ pc = "done"
    /\ hasil_iter # << >>
    /\ sum_iter.status[1] = "Kurang"
    /\ sum_iter.diff < 0
    /\ sum_rec.status[1] = "Terlampaui"
    /\ sum_rec.diff > 0

ZeroClosest ==
    /\ sisa > 0
    /\ MENU_DATABASE # << >>
    /\ Closest(MENU_DATABASE, sisa).kalori = 0

C9_ZeroCalorieSpin ==
    [][ /\ (InIter /\ ZeroClosest) =>
              /\ pc' = pc
              /\ sisa' = sisa
              /\ hasil' = Append(hasil, Closest(MENU_DATABASE, sisa))
        /\ (InRec /\ ZeroClosest) =>
              /\ pc' = pc
              /\ sisa' = sisa
              /\ result' = Append(result, Closest(MENU_DATABASE, sisa)) ]_vars

C9_Witness ==
    /\ InIter
    /\ ZeroClosest
    /\ Len(hasil) >= 3
    /\ \A i \in 1..Len(hasil) : hasil[i] = Closest(MENU_DATABASE, sisa)

\* C10: a selector that terminates on a non-empty catalog returns a total
\* >= target, so the summary of a selector result never has a negative diff
\* nor the "Kurang" status; a total below target comes only from the empty
\* catalog, whose result is the empty list.
C10_NeverShort ==
    /\ (pc \in {"summarize", "done"} /\ MENU_DATABASE # << >>) =>
          /\ SumKalori(hasil_iter) >= target
          /\ SumKalori(hasil_rec) >= target
    /\ (pc = "done" /\ MENU_DATABASE # << >>) =>
          /\ sum_iter.diff >= 0 /\ sum_iter.status[1] # "Kurang"
          /\ sum_rec.diff >= 0 /\ sum_rec.status[1] # "Kurang"
    /\ (pc = "done" /\ (sum_iter.diff < 0 \/ sum_rec.diff < 0)) =>
          /\ MENU_DATABASE = << >>
          /\ hasil_iter = << >>
          /\ hasil_rec = << >>

C10_Witness ==
    /\ pc = "done"
    /\ MENU_DATABASE # << >>
    /\ sum_iter.status[1] = "Terlampaui"
    /\ sum_rec.status[1] = "Terlampaui"
    /\ Len(hasil_iter) >= 2
    /\ sum_iter.total = SumKalori(hasil_iter)
    /\ sum_iter.diff = sum_rec.diff
====
